---- MODULE Spec2Model ----
(***************************************************************************)
(* Red-black tree of RedBlackTree.cpp: a heap of RBTNode objects linked by *)
(* left / right / parent pointers, and two RedBlackTree objects (an        *)
(* original and a copy made by the copy constructor), each with its root   *)
(* pointer and its numItems counter.                                        *)
(***************************************************************************)
EXTENDS Integers, Sequences, FiniteSets, TLC

(* ------------------------------ bounds -------------------------------- *)
\* number of distinct keys the callers insert (10, 20, ..., 10 * NumKeys)
NumKeys == 8
\* number of distinct keys used by callers that also copy the tree: the
\* copy constructor is applied to trees holding keys 10, ..., 10 * NumCopyKeys
\* only, and both trees are then given such keys only
NumCopyKeys == 4
\* number of Insert calls the scenario specification records
MaxLog == 3

Keys == {10 * i : i \in 1..NumKeys}
CopyKeys == {10 * i : i \in 1..NumCopyKeys}
Trees == {1, 2}
Addr == 1..(3 * NumKeys)

(* ------------------------------ state --------------------------------- *)
VARIABLES
    heap,        \* allocated RBTNode objects: address -> node
    root,        \* root[t]: the root pointer of tree t
    numItems,    \* numItems[t]: the counter of tree t
    constructed, \* constructed[t]: tree t's constructor has run
    lastResult,  \* how the last public operation ended
    okInserts,   \* history: number of Insert calls on t that returned normally
    initCount,   \* history: numItems[t] as the constructor of t left it
    log,         \* history: keys handed to Insert, in call order (scenario)
    pc,          \* position inside Insert (stepwise specification)
    cur,         \* InsertFixUp's local variable `node`
    branches,    \* history: branch taken by each iteration of InsertFixUp
                 \* in the last Insert (or the one in progress), in order
    rots         \* history: rotations made by the last Insert (or the one
                 \* in progress)

vars == <<heap, root, numItems, constructed, lastResult, okInserts, initCount,
          log, pc, cur, branches, rots>>

NULL == 0
COLOR_RED == "RED"
COLOR_BLACK == "BLACK"

(* ------------------------- statement sequencing ----------------------- *)
\* F applied to the value of e: the value is computed once, as the program
\* computes a local variable once, however often the later statements read it
With(e, F(_)) == CHOOSE r \in {F(x) : x \in {e}} : TRUE

(* --------------------------- node allocation -------------------------- *)
\* new RBTNode(): value-initialised, so the three pointers are null; every
\* caller then sets data and color.
NewNode(data, color) ==
    [data |-> data, color |-> color, left |-> NULL, right |-> NULL,
     parent |-> NULL, IsNullNode |-> FALSE]

\* operator new returns an address that is not in use.  The program only
\* compares addresses for equality, so the model fixes which free address
\* it is: the slot named after the owning tree and the key when that is
\* free, any other free address otherwise.
Alloc(h, t, data) ==
    LET want == (t - 1) * NumKeys + (data \div 10)
    IN  IF want \in Addr /\ want \notin DOMAIN h
        THEN want
        ELSE CHOOSE a \in Addr : a \notin DOMAIN h

Store(h, a, node) == [x \in DOMAIN h \cup {a} |-> IF x = a THEN node ELSE h[x]]

(* ------------------------------ helpers ------------------------------- *)
IsLeftChild(h, node) ==
    h[node].parent # NULL /\ h[h[node].parent].left = node

IsRightChild(h, node) ==
    h[node].parent # NULL /\ h[h[node].parent].right = node

GetUncle(h, node) ==
    IF h[node].parent = NULL \/ h[h[node].parent].parent = NULL
    THEN NULL
    ELSE IF IsLeftChild(h, h[node].parent)
         THEN h[h[h[node].parent].parent].right
         ELSE h[h[h[node].parent].parent].left

RECURSIVE Get(_, _, _)
Get(h, curr, data) ==
    IF curr = NULL THEN NULL
    ELSE IF data = h[curr].data THEN curr
    ELSE IF data < h[curr].data THEN Get(h, h[curr].left, data)
    ELSE Get(h, h[curr].right, data)

\* mutant: looks at the root only
Contains_RootOnly(h, r, data) == r # NULL /\ h[r].data = data

Contains(h, r, data) == Get(h, r, data) # NULL

(* ------------------------------ rotations ----------------------------- *)
\* Both return the new heap and the new root pointer of the tree.
LeftRotate(h, r, node) ==
    LET rc == h[node].right
        h1 == [h EXCEPT ![node].right = h[rc].left]
        h2 == IF h1[rc].left # NULL
              THEN [h1 EXCEPT ![h1[rc].left].parent = node]
              ELSE h1
        h3 == [h2 EXCEPT ![rc].parent = h2[node].parent]
        r4 == IF h3[node].parent = NULL THEN rc ELSE r
        h4 == IF h3[node].parent = NULL THEN h3
              ELSE IF IsLeftChild(h3, node)
                   THEN [h3 EXCEPT ![h3[node].parent].left = rc]
                   ELSE [h3 EXCEPT ![h3[node].parent].right = rc]
        h5 == [h4 EXCEPT ![rc].left = node]
        h6 == [h5 EXCEPT ![node].parent = rc]
    IN  [heap |-> h6, root |-> r4]

\* mutant: the subtree that changes sides keeps its old parent pointer
RightRotate_NoReparent(h, r, node) ==
    LET lc == h[node].left
        h1 == [h EXCEPT ![node].left = h[lc].right]
        h3 == [h1 EXCEPT ![lc].parent = h1[node].parent]
        r4 == IF h3[node].parent = NULL THEN lc ELSE r
        h4 == IF h3[node].parent = NULL THEN h3
              ELSE IF IsRightChild(h3, node)
                   THEN [h3 EXCEPT ![h3[node].parent].right = lc]
                   ELSE [h3 EXCEPT ![h3[node].parent].left = lc]
        h5 == [h4 EXCEPT ![lc].right = node]
        h6 == [h5 EXCEPT ![node].parent = lc]
    IN  [heap |-> h6, root |-> r4]

RightRotate(h, r, node) ==
    LET lc == h[node].left
        h1 == [h EXCEPT ![node].left = h[lc].right]
        h2 == IF h1[lc].right # NULL
              THEN [h1 EXCEPT ![h1[lc].right].parent = node]
              ELSE h1
        h3 == [h2 EXCEPT ![lc].parent = h2[node].parent]
        r4 == IF h3[node].parent = NULL THEN lc ELSE r
        h4 == IF h3[node].parent = NULL THEN h3
              ELSE IF IsRightChild(h3, node)
                   THEN [h3 EXCEPT ![h3[node].parent].right = lc]
                   ELSE [h3 EXCEPT ![h3[node].parent].left = lc]
        h5 == [h4 EXCEPT ![lc].right = node]
        h6 == [h5 EXCEPT ![node].parent = lc]
    IN  [heap |-> h6, root |-> r4]

(* ------------------------------ BasicInsert --------------------------- *)
\* the while loop of BasicInsert: the last non-null node of the descent
RECURSIVE Descend(_, _, _, _)
Descend(h, curr, prev, data) ==
    IF curr = NULL THEN prev
    ELSE IF data < h[curr].data
         THEN Descend(h, h[curr].left, curr, data)
         ELSE Descend(h, h[curr].right, curr, data)

\* mutant: attaches the node on the other side of the node the descent
\* ended at
BasicInsert_WrongSide(h, r, node) ==
    With(Descend(h, r, NULL, h[node].data), LAMBDA prev :
         LET h1 == [h EXCEPT ![node].parent = prev]
         IN  IF h1[node].data > h1[prev].data
             THEN [h1 EXCEPT ![prev].left = node]
             ELSE [h1 EXCEPT ![prev].right = node])

BasicInsert(h, r, node) ==
    With(Descend(h, r, NULL, h[node].data), LAMBDA prev :
         LET h1 == [h EXCEPT ![node].parent = prev]
         IN  IF h1[node].data < h1[prev].data
             THEN [h1 EXCEPT ![prev].left = node]
             ELSE [h1 EXCEPT ![prev].right = node])

(* ------------------------------ InsertFixUp --------------------------- *)
\* the condition of the while loop
LoopCond(h, r, node) ==
    node # r /\ h[h[node].parent].color = COLOR_RED

\* Case 1 of either side: recolor parent, uncle and grandparent, move up
\* mutant: recolors but does not move up to the grandparent
Recolor_NoAscend(h, r, node, uncle) ==
    LET h1 == [h EXCEPT ![h[node].parent].color = COLOR_BLACK]
        h2 == [h1 EXCEPT ![uncle].color = COLOR_BLACK]
        h3 == [h2 EXCEPT ![h2[h2[node].parent].parent].color = COLOR_RED]
    IN  [heap |-> h3, root |-> r, node |-> node,
         branch |-> "recolor", rots |-> 0]

Recolor(h, r, node, uncle) ==
    LET h1 == [h EXCEPT ![h[node].parent].color = COLOR_BLACK]
        h2 == [h1 EXCEPT ![uncle].color = COLOR_BLACK]
        h3 == [h2 EXCEPT ![h2[h2[node].parent].parent].color = COLOR_RED]
    IN  [heap |-> h3, root |-> r, node |-> h3[h3[node].parent].parent,
         branch |-> "recolor", rots |-> 0]

\* mutant: the parent is not recolored BLACK
RecolorForRotation_NoParentBlack(h, node) ==
    [h EXCEPT ![h[h[node].parent].parent].color = COLOR_RED]

\* mutant: the grandparent is not recolored RED
RecolorForRotation_NoGrandRed(h, node) ==
    [h EXCEPT ![h[node].parent].color = COLOR_BLACK]

\* the two color assignments before the last rotation (lines 99-100, and
\* 116-117 in the mirror branch)
RecolorForRotation(h, node) ==
    LET h1 == [h EXCEPT ![h[node].parent].color = COLOR_BLACK]
    IN  [h1 EXCEPT ![h1[h1[node].parent].parent].color = COLOR_RED]

\* Cases 2 and 3, parent is a left child
RotateLeftSide(h, r, node) ==
    LET inner == IsRightChild(h, node)
        n1 == IF inner THEN h[node].parent ELSE node
    IN  With(IF inner THEN LeftRotate(h, r, n1) ELSE [heap |-> h, root |-> r],
             LAMBDA s1 :
        With(RecolorForRotation(s1.heap, n1), LAMBDA h3 :
        With(RightRotate(h3, s1.root, h3[h3[n1].parent].parent), LAMBDA s4 :
             [heap |-> s4.heap, root |-> s4.root, node |-> n1,
              branch |-> "rotate", rots |-> IF inner THEN 2 ELSE 1])))

\* the mirror image, parent is not a left child
RotateRightSide(h, r, node) ==
    LET inner == IsLeftChild(h, node)
        n1 == IF inner THEN h[node].parent ELSE node
    IN  With(IF inner THEN RightRotate(h, r, n1) ELSE [heap |-> h, root |-> r],
             LAMBDA s1 :
        With(RecolorForRotation(s1.heap, n1), LAMBDA h3 :
        With(LeftRotate(h3, s1.root, h3[h3[n1].parent].parent), LAMBDA s4 :
             [heap |-> s4.heap, root |-> s4.root, node |-> n1,
              branch |-> "rotate", rots |-> IF inner THEN 2 ELSE 1])))

\* one iteration of the while loop (its body, lines 84-120)
FixUpIter(h, r, node) ==
    LET uncle == GetUncle(h, node)
    IN  IF IsLeftChild(h, h[node].parent)
        THEN IF uncle # NULL /\ h[uncle].color = COLOR_RED
             THEN Recolor(h, r, node, uncle)
             ELSE RotateLeftSide(h, r, node)
        ELSE IF uncle # NULL /\ h[uncle].color = COLOR_RED
             THEN Recolor(h, r, node, uncle)
             ELSE RotateRightSide(h, r, node)

\* mutant: the root keeps the color the loop left it
BlackenRoot_Skip(h, r) == h

\* line 122, and again line 54
BlackenRoot(h, r) == [h EXCEPT ![r].color = COLOR_BLACK]

\* InsertFixUp(node); b and n carry the branches taken and the number of
\* rotations made so far, which the result reports
RECURSIVE InsertFixUp(_, _, _, _, _)
InsertFixUp(h, r, node, b, n) ==
    IF LoopCond(h, r, node)
    THEN With(FixUpIter(h, r, node), LAMBDA it :
              InsertFixUp(it.heap, it.root, it.node, Append(b, it.branch),
                          n + it.rots))
    ELSE [heap |-> BlackenRoot(h, r), root |-> r, branches |-> b, rots |-> n]

(* ------------------------------ Insert -------------------------------- *)
\* Insert(newData) on tree t with root r and counter n: the heap, root and
\* counter it leaves, whether it threw invalid_argument, and what its
\* fix-up did (branches taken, rotations made).
InsertOp(h, r, n, t, newData) ==
    IF r = NULL
    THEN With(Alloc(h, t, newData), LAMBDA a :
              [heap |-> Store(h, a, NewNode(newData, COLOR_BLACK)),
               root |-> a, numItems |-> n + 1, thrown |-> FALSE,
               branches |-> <<>>, rots |-> 0])
    ELSE IF Contains(h, r, newData)
    THEN [heap |-> h, root |-> r, numItems |-> n, thrown |-> TRUE,
          branches |-> <<>>, rots |-> 0]
    ELSE With(Alloc(h, t, newData), LAMBDA a :
         With(Store(h, a, NewNode(newData, COLOR_RED)), LAMBDA h1 :
         With(BasicInsert(h1, r, a), LAMBDA h2 :
         With(InsertFixUp(h2, r, a, <<>>, 0), LAMBDA s3 :
              [heap |-> BlackenRoot(s3.heap, s3.root), root |-> s3.root,
               numItems |-> n + 1, thrown |-> FALSE,
               branches |-> s3.branches, rots |-> s3.rots]))))

(* ------------------------------ copy ---------------------------------- *)
RECURSIVE CopyOf(_, _, _)
CopyOf(h, node, t) ==
    IF node = NULL THEN [heap |-> h, ptr |-> NULL]
    ELSE With(Alloc(h, t, h[node].data), LAMBDA a :
         With(Store(h, a, [NewNode(h[node].data, h[node].color)
                             EXCEPT !.IsNullNode = h[node].IsNullNode]),
              LAMBDA h1 :
         With(CopyOf(h1, h1[node].left, t), LAMBDA lc :
         With([lc.heap EXCEPT ![a].left = lc.ptr], LAMBDA h2 :
         With(CopyOf(h2, h2[node].right, t), LAMBDA rc :
              LET h3 == [rc.heap EXCEPT ![a].right = rc.ptr]
                  h4 == IF h3[a].left # NULL
                        THEN [h3 EXCEPT ![h3[a].left].parent = a] ELSE h3
                  h5 == IF h4[a].right # NULL
                        THEN [h4 EXCEPT ![h4[a].right].parent = a] ELSE h4
              IN  [heap |-> h5, ptr |-> a])))))

\* mutant: a shallow copy, the new tree points at the source's root
CopyConstruct_Shallow(h, srcRoot, srcItems, t) ==
    [heap |-> h, root |-> srcRoot, numItems |-> srcItems]

\* RedBlackTree(const RedBlackTree& rbt), constructing tree t
CopyConstruct(h, srcRoot, srcItems, t) ==
    With(CopyOf(h, srcRoot, t), LAMBDA c :
         [heap |-> c.heap, root |-> c.ptr, numItems |-> srcItems])

(* ------------------------------ rendering ----------------------------- *)
Digit(d) ==
    CASE d = 0 -> "0" [] d = 1 -> "1" [] d = 2 -> "2" [] d = 3 -> "3"
      [] d = 4 -> "4" [] d = 5 -> "5" [] d = 6 -> "6" [] d = 7 -> "7"
      [] d = 8 -> "8" [] d = 9 -> "9"

RECURSIVE NatString(_)
NatString(n) ==
    IF n < 10 THEN Digit(n) ELSE NatString(n \div 10) \o Digit(n % 10)

\* std::to_string(int)
to_string(n) == IF n < 0 THEN "-" \o NatString(0 - n) ELSE NatString(n)

\* mutant: the two tags are swapped
GetColorString_Swapped(h, n) ==
    IF n = NULL THEN "" ELSE IF h[n].color = COLOR_BLACK THEN "R" ELSE "B"

GetColorString(h, n) ==
    IF n = NULL THEN "" ELSE IF h[n].color = COLOR_RED THEN "R" ELSE "B"

GetNodeString(h, n) ==
    IF n = NULL THEN ""
    ELSE " " \o GetColorString(h, n) \o to_string(h[n].data) \o " "

RECURSIVE ToInfixString(_, _)
ToInfixString(h, n) ==
    IF n = NULL THEN ""
    ELSE ToInfixString(h, h[n].left) \o GetNodeString(h, n)
           \o ToInfixString(h, h[n].right)

RECURSIVE ToPrefixString(_, _)
ToPrefixString(h, n) ==
    IF n = NULL THEN ""
    ELSE GetNodeString(h, n) \o ToPrefixString(h, h[n].left)
           \o ToPrefixString(h, h[n].right)

RECURSIVE ToPostfixString(_, _)
ToPostfixString(h, n) ==
    IF n = NULL THEN ""
    ELSE ToPostfixString(h, h[n].left) \o ToPostfixString(h, h[n].right)
           \o GetNodeString(h, n)

(* ------------------------------ constructors -------------------------- *)
EmptyHeap == [a \in {} |-> NewNode(0, COLOR_BLACK)]

\* RedBlackTree()
DefaultConstruct(h) == [heap |-> h, root |-> NULL, numItems |-> 0]

\* mutant: the counter is left at 0
ValueConstruct_NoCount(h, t, newData) ==
    With(Alloc(h, t, newData), LAMBDA a :
         [heap |-> Store(h, a, NewNode(newData, COLOR_BLACK)),
          root |-> a, numItems |-> 0])

\* RedBlackTree(int newData), constructing tree t
ValueConstruct(h, t, newData) ==
    With(Alloc(h, t, newData), LAMBDA a :
         [heap |-> Store(h, a, NewNode(newData, COLOR_BLACK)),
          root |-> a, numItems |-> 1])

\* Tree 1 exists from the start, built by the default or by the single-value
\* constructor; tree 2 does not exist until the copy constructor builds it.
InitWith(c) ==
    /\ heap = c.heap
    /\ root = [t \in Trees |-> IF t = 1 THEN c.root ELSE NULL]
    /\ numItems = [t \in Trees |-> IF t = 1 THEN c.numItems ELSE 0]
    /\ constructed = [t \in Trees |-> t = 1]
    /\ lastResult = "constructed"
    /\ okInserts = [t \in Trees |-> 0]
    /\ initCount = [t \in Trees |-> IF t = 1 THEN c.numItems ELSE 0]
    /\ log = <<>>
    /\ pc = "idle"
    /\ cur = NULL
    /\ branches = <<>>
    /\ rots = 0

Init ==
    \/ \E c \in {DefaultConstruct(EmptyHeap)} : InitWith(c)
    \/ \E k \in Keys : \E c \in {ValueConstruct(EmptyHeap, 1, k)} : InitWith(c)

(* ------------------------------ actions ------------------------------- *)
\* a whole call of Insert(k) on tree t
InsertCore(t, k) ==
    /\ pc = "idle"
    /\ constructed[t]
    /\ \E res \in {InsertOp(heap, root[t], numItems[t], t, k)} :
           /\ heap' = res.heap
           /\ root' = [root EXCEPT ![t] = res.root]
           /\ numItems' = [numItems EXCEPT ![t] = res.numItems]
           /\ lastResult' = IF res.thrown THEN "duplicate" ELSE "ok"
           /\ okInserts' = [okInserts EXCEPT
                              ![t] = IF res.thrown THEN @ ELSE @ + 1]
           /\ branches' = res.branches
           /\ rots' = res.rots
    /\ UNCHANGED <<constructed, initCount>>

Insert(t, k) ==
    /\ constructed[2] => k \in CopyKeys
    /\ InsertCore(t, k)
    /\ UNCHANGED <<log, pc, cur>>

\* RedBlackTree copy(original): constructs tree 2 from tree 1
Copy ==
    /\ pc = "idle"
    /\ ~constructed[2]
    /\ \A k \in Keys \ CopyKeys : ~Contains(heap, root[1], k)
    /\ \E c \in {CopyConstruct(heap, root[1], numItems[1], 2)} :
           /\ heap' = c.heap
           /\ root' = [root EXCEPT ![2] = c.root]
           /\ numItems' = [numItems EXCEPT ![2] = c.numItems]
           /\ initCount' = [initCount EXCEPT ![2] = c.numItems]
    /\ constructed' = [constructed EXCEPT ![2] = TRUE]
    /\ lastResult' = "copied"
    /\ UNCHANGED <<okInserts, log, pc, cur, branches, rots>>

Next ==
    \/ \E t \in Trees, k \in Keys : Insert(t, k)
    \/ Copy

Spec == Init /\ [][Next]_vars

(* ---------------- scenario specification: recorded calls -------------- *)
InsertLogged(k) ==
    /\ Len(log) < MaxLog
    /\ InsertCore(1, k)
    /\ log' = Append(log, k)
    /\ UNCHANGED <<pc, cur>>

NextScenario == \E k \in Keys : InsertLogged(k)

SpecScenario == Init /\ [][NextScenario]_vars

(* ---------------- stepwise specification: inside Insert --------------- *)
\* Insert(k) on tree 1 that returns at line 35 or throws at line 39
InsertReturn(k) ==
    /\ root[1] = NULL \/ Contains(heap, root[1], k)
    /\ InsertCore(1, k)
    /\ UNCHANGED <<log, pc, cur>>

\* Insert(k) on tree 1 up to the call of InsertFixUp (lines 43-51)
InsertPlace(k) ==
    /\ pc = "idle"
    /\ root[1] # NULL /\ ~Contains(heap, root[1], k)
    /\ \E a \in {Alloc(heap, 1, k)} :
       \E h1 \in {Store(heap, a, NewNode(k, COLOR_RED))} :
           /\ heap' = BasicInsert(h1, root[1], a)
           /\ cur' = a
    /\ pc' = "fixup"
    /\ branches' = <<>>
    /\ rots' = 0
    /\ lastResult' = "running"
    /\ UNCHANGED <<root, numItems, constructed, okInserts, initCount, log>>

\* one iteration of the loop of InsertFixUp
FixUpStep ==
    /\ pc = "fixup"
    /\ LoopCond(heap, root[1], cur)
    /\ \E it \in {FixUpIter(heap, root[1], cur)} :
           /\ heap' = it.heap
           /\ root' = [root EXCEPT ![1] = it.root]
           /\ cur' = it.node
           /\ branches' = Append(branches, it.branch)
           /\ rots' = rots + it.rots
    /\ UNCHANGED <<numItems, constructed, lastResult, okInserts, initCount,
                   log, pc>>

\* the loop exits: line 122, then lines 54-56
InsertEnd ==
    /\ pc = "fixup"
    /\ ~LoopCond(heap, root[1], cur)
    /\ heap' = BlackenRoot(BlackenRoot(heap, root[1]), root[1])
    /\ numItems' = [numItems EXCEPT ![1] = @ + 1]
    /\ okInserts' = [okInserts EXCEPT ![1] = @ + 1]
    /\ lastResult' = "ok"
    /\ pc' = "idle"
    /\ cur' = NULL
    /\ UNCHANGED <<root, constructed, initCount, log, branches, rots>>

NextFixUp ==
    \/ \E k \in Keys : InsertReturn(k)
    \/ \E k \in Keys : InsertPlace(k)
    \/ FixUpStep
    \/ InsertEnd

\* Insert runs to completion on its single thread: a loop iteration that
\* can run does run, and so does the exit of the loop.
SpecFixUp ==
    Init /\ [][NextFixUp]_vars /\ WF_vars(FixUpStep) /\ WF_vars(InsertEnd)

(* ====================== properties of the tree ======================== *)
\* nodes of the subtree at n, following child links at most `fuel` levels
RECURSIVE Subtree(_, _, _)
Subtree(h, n, fuel) ==
    IF n = NULL \/ fuel = 0 THEN {}
    ELSE {n} \cup Subtree(h, h[n].left, fuel - 1)
             \cup Subtree(h, h[n].right, fuel - 1)

NodesOf(t) == Subtree(heap, root[t], Cardinality(DOMAIN heap))

Built == {t \in Trees : constructed[t]}

IsRed(h, n) == n # NULL /\ h[n].color = COLOR_RED

\* number of BLACK nodes on every path from n down to an absent child, or -1
\* when two such paths disagree
RECURSIVE BlackHeight(_, _, _)
BlackHeight(h, n, fuel) ==
    IF n = NULL THEN 0
    ELSE IF fuel = 0 THEN -1
    ELSE LET l == BlackHeight(h, h[n].left, fuel - 1)
             r == BlackHeight(h, h[n].right, fuel - 1)
         IN  IF l = -1 \/ r = -1 \/ l # r THEN -1
             ELSE l + (IF h[n].color = COLOR_BLACK THEN 1 ELSE 0)

\* number of parent links from n up to a node without parent
RECURSIVE Depth(_, _, _)
Depth(h, n, fuel) ==
    IF h[n].parent = NULL \/ fuel = 0 THEN 0
    ELSE 1 + Depth(h, h[n].parent, fuel - 1)

\* C1: after every completed operation no RED node of a constructed tree
\* has a RED left or right child.
NoRedRed ==
    pc = "idle" =>
        \A t \in Built : \A n \in NodesOf(t) :
            IsRed(heap, n) =>
                ~IsRed(heap, heap[n].left) /\ ~IsRed(heap, heap[n].right)

\* an Insert whose fix-up recolored and then rotated has just completed,
\* and the tree holds a RED node with children
WitnessNoRedRed ==
    /\ lastResult = "ok" /\ branches = <<"recolor", "rotate">>
    /\ \E n \in NodesOf(1) : IsRed(heap, n) /\ heap[n].left # NULL

\* C2: after every completed operation, every node of a constructed tree
\* has the same number of BLACK nodes on all its paths down to an absent
\* child.
BlackHeightUniform ==
    pc = "idle" =>
        \A t \in Built : \A n \in NodesOf(t) :
            BlackHeight(heap, n, Cardinality(DOMAIN heap)) # -1

\* a tree of seven nodes and black height 2 whose last Insert rotated
WitnessBlackHeight ==
    /\ lastResult = "ok" /\ rots >= 1 /\ numItems[1] = 7
    /\ BlackHeight(heap, root[1], Cardinality(DOMAIN heap)) = 2

\* the node strings of the nodes in S in ascending key order
RECURSIVE RenderAscending(_, _)
RenderAscending(h, S) ==
    IF S = {} THEN ""
    ELSE LET m == CHOOSE x \in S : \A y \in S : h[x].data <= h[y].data
         IN  GetNodeString(h, m) \o RenderAscending(h, S \ {m})

\* C3: every constructed tree is a binary search tree without duplicate
\* keys (left subtree keys smaller, right subtree keys larger, at every
\* node), and its infix rendering lists the nodes in strictly ascending key
\* order.
SearchTreeOrder ==
    pc = "idle" =>
        \A t \in Built :
            LET N == NodesOf(t)
                fuel == Cardinality(DOMAIN heap)
            IN  /\ \A n \in N :
                    /\ \A m \in Subtree(heap, heap[n].left, fuel) :
                           heap[m].data < heap[n].data
                    /\ \A m \in Subtree(heap, heap[n].right, fuel) :
                           heap[m].data > heap[n].data
                /\ \A n, m \in N : heap[n].data = heap[m].data => n = m
                /\ ToInfixString(heap, root[t]) = RenderAscending(heap, N)

\* a full tree whose last Insert made two rotations
WitnessSearchTreeOrder ==
    /\ lastResult = "ok" /\ rots = 2
    /\ Cardinality(NodesOf(1)) = NumKeys

\* C7: after every completed operation the root of a constructed tree is
\* BLACK, or the tree is empty.
RootIsBlack ==
    pc = "idle" =>
        \A t \in Built : root[t] = NULL \/ heap[root[t]].color = COLOR_BLACK

\* the last Insert, into a copy-constructed tree of three nodes, recolored
\* the root RED in its only fix-up iteration
WitnessRootIsBlack ==
    /\ lastResult = "ok" /\ branches = <<"recolor">>
    /\ constructed[2] /\ initCount[2] = 3 /\ numItems[2] = 4

\* C9: after every completed operation parent pointers are the exact
\* inverses of the child links: a root has no parent, and n.parent = p
\* exactly when p.left = n or p.right = n.
ParentInverse ==
    pc = "idle" =>
        /\ \A t \in Built : root[t] # NULL => heap[root[t]].parent = NULL
        /\ \A n \in DOMAIN heap : \A p \in DOMAIN heap :
               heap[n].parent = p <=> (heap[p].left = n \/ heap[p].right = n)
        /\ \A n \in DOMAIN heap :
               heap[n].parent = NULL => \E t \in Built : root[t] = n

\* a rotation has moved non-empty subtrees: the last Insert recolored at
\* the bottom and then rotated two levels higher
WitnessParentInverse ==
    /\ lastResult = "ok" /\ branches = <<"recolor", "rotate">> /\ rots = 1
    /\ \E n \in NodesOf(1) : Depth(heap, n, NumKeys) = 3

(* ================== properties of single operations =================== *)
\* what a caller can observe of tree t: the three renderings, the keys
\* Contains reports, and the count
Renderings(t) ==
    <<ToInfixString(heap, root[t]), ToPrefixString(heap, root[t]),
      ToPostfixString(heap, root[t])>>

ContainsSet(t) == {k \in Keys : Contains(heap, root[t], k)}

Observed(t) == <<Renderings(t), ContainsSet(t), numItems[t]>>

StoredKeys(t) == {heap[n].data : n \in NodesOf(t)}

\* C4: an Insert of a key that is stored in the tree fails with the
\* duplicate-key error and changes nothing: same nodes, links, colors and
\* roots, same renderings, same Contains results, same count.
DuplicateInsertChangesNothing ==
    [][\A t \in Built :
          (\E k \in StoredKeys(t) : Insert(t, k)) =>
              /\ lastResult' = "duplicate"
              /\ heap' = heap
              /\ root' = root
              /\ numItems' = numItems
              /\ Observed(t)' = Observed(t)]_vars

\* an Insert has just failed on a tree of five nodes, for a key that is not
\* at the root
WitnessDuplicateInsert ==
    /\ lastResult = "duplicate" /\ numItems[1] = 5
    /\ \E n \in NodesOf(1) : n # root[1] /\ heap[n].left # NULL

\* C5 as stated: the count equals the number of nodes reachable from the
\* root and equals the number of successful Insert calls.
CountEqualsInsertCalls ==
    pc = "idle" =>
        \A t \in Built :
            /\ numItems[t] = Cardinality(NodesOf(t))
            /\ numItems[t] = okInserts[t]

\* C5 amended: the count equals the number of nodes reachable from the
\* root, and equals the count the constructor set plus the number of
\* successful Insert calls.
CountConsistent ==
    pc = "idle" =>
        \A t \in Built :
            /\ numItems[t] = Cardinality(NodesOf(t))
            /\ numItems[t] = initCount[t] + okInserts[t]

\* a copy-constructed tree that started with two nodes and has taken two
\* successful inserts, next to an original built by the single-value
\* constructor that has taken two
WitnessCountConsistent ==
    /\ constructed[2] /\ initCount[2] = 2 /\ okInserts[2] = 2
    /\ initCount[1] = 1 /\ okInserts[1] = 2

\* same keys, colors and shape below a and below b
RECURSIVE SameTree(_, _, _, _)
SameTree(h, a, b, fuel) ==
    IF a = NULL \/ b = NULL THEN a = b
    ELSE /\ fuel > 0
         /\ h[a].data = h[b].data
         /\ h[a].color = h[b].color
         /\ SameTree(h, h[a].left, h[b].left, fuel - 1)
         /\ SameTree(h, h[a].right, h[b].right, fuel - 1)

Other(t) == 3 - t

\* C6: the copy constructor leaves a copy with the same keys, colors and
\* shape as the source and no node in common with it, and from then on an
\* Insert on either tree (a step that changes what that tree shows, or
\* counts as one of its successful Inserts) leaves the renderings, the
\* Contains results and the count of the other tree unchanged.
CopyIndependent ==
    /\ [](constructed[2] => NodesOf(1) \cap NodesOf(2) = {})
    /\ [][(~constructed[2] /\ constructed'[2]) =>
              /\ SameTree(heap', root'[1], root'[2], Cardinality(DOMAIN heap'))
              /\ numItems'[2] = numItems'[1]
              /\ Observed(1)' = Observed(1)]_vars
    /\ [][\A t \in Trees :
              (constructed[2] /\ (okInserts'[t] # okInserts[t]
                                    \/ Observed(t)' # Observed(t))) =>
                  Observed(Other(t))' = Observed(Other(t))]_vars

\* a copy of a two-node tree; since the copy, one successful Insert on the
\* original and one on the copy, the last of them rotating
WitnessCopyIndependent ==
    /\ constructed[2] /\ initCount[2] = 2
    /\ numItems[1] = 3 /\ numItems[2] = 3
    /\ ContainsSet(1) # ContainsSet(2)
    /\ lastResult = "ok" /\ rots >= 1

\* C8 as stated: inserting 10, 20, 30 into an empty tree renders, infix,
\* as " B10  R20  B30 ".
InfixAsStated ==
    (initCount[1] = 0 /\ log = <<10, 20, 30>>) =>
        ToInfixString(heap, root[1]) = " B10  R20  B30 "

\* C8 amended: inserting 10, 20, 30 into an empty tree renders, infix, as
\* " R10  B20  R30 " (20 is the BLACK root, 10 and 30 are RED).
InfixAfterThreeInserts ==
    (initCount[1] = 0 /\ log = <<10, 20, 30>>) =>
        /\ ToInfixString(heap, root[1]) = " R10  B20  R30 "
        /\ heap[root[1]].data = 20

\* 10, 20, 30 have been inserted, in that order, into a default-constructed
\* tree, the third Insert rotating once
WitnessThreeInserts ==
    /\ initCount[1] = 0 /\ log = <<10, 20, 30>>
    /\ lastResult = "ok" /\ rots = 1 /\ numItems[1] = 3

(* ===================== properties of the fix-up loop ================== *)
InLoop == pc = "fixup" /\ LoopCond(heap, root[1], cur)

UncleRed == IsRed(heap, GetUncle(heap, cur))

Links(h) == [n \in DOMAIN h |-> <<h[n].left, h[n].right, h[n].parent>>]

\* iterations the loop can still make, at most: none once its condition is
\* false, otherwise one more than the depth of the current node
Measure ==
    IF InLoop THEN Depth(heap, cur, NumKeys) + 1 ELSE 0

\* C10: an iteration of the fix-up loop that finds the uncle BLACK or absent
\* rotates once or twice and is the last one; an iteration that finds the
\* uncle RED changes no link and moves the current node two levels up; an
\* Insert rotates at most twice; and the loop terminates: every iteration
\* strictly decreases a natural-number measure, and an Insert that entered
\* InsertFixUp completes.
FixUpLoopEnds ==
    /\ [][(InLoop /\ ~UncleRed) =>
              /\ ~LoopCond(heap', root'[1], cur')
              /\ rots' \in {rots + 1, rots + 2}
              /\ branches' = Append(branches, "rotate")]_vars
    /\ [][(InLoop /\ UncleRed) =>
              /\ rots' = rots
              /\ Links(heap') = Links(heap) /\ root' = root
              /\ Depth(heap', cur', NumKeys) = Depth(heap, cur, NumKeys) - 2
              /\ branches' = Append(branches, "recolor")]_vars
    /\ [](rots <= 2)
    /\ [][InLoop => Measure' < Measure]_vars
    /\ (pc = "fixup") ~> (pc = "idle")

\* the loop is about to exit after a recoloring iteration followed by a
\* rotating one, which rotated twice
WitnessFixUpLoop ==
    /\ pc = "fixup" /\ ~LoopCond(heap, root[1], cur)
    /\ branches = <<"recolor", "rotate">> /\ rots = 2

====
